---- MODULE Spec2Model ----
(***************************************************************************)
(* Model of bot.py: a polling pipeline that reads recent updates of a      *)
(* source chat, parses deal posts with message_regex, rewrites the link    *)
(* through an affiliate endpoint, sends the formatted post to the target   *)
(* chat and appends the message id to processed_message_ids.txt.           *)
(*                                                                         *)
(* Texts are sequences of tokens.  A token is one character, or one of     *)
(* the literal words of message_regex (an emoji, "Product:", "Price:",     *)
(* "Link:", "http://", ...), which the regex can only match as a whole.    *)
(***************************************************************************)
EXTENDS Integers, Sequences, FiniteSets, TLC

\* ------------------------------------------------------------------ bounds
MaxRuns == 2        \* runs of the script that are started
MaxBatch == 2       \* updates returned by one get_updates call
MaxOverlapBatch == 1   \* the same, when runs overlap

\* ------------------------------------------------------------- characters
Space == " "
Newline == "\n"
Whitespace == {Space, Newline}
Digits == <<"0", "1", "2", "3", "4", "5", "6", "7", "8", "9">>
DigitSet == {Digits[i] : i \in 1..10}

\* str(n) for a natural number n: its decimal digits, most significant first.
RECURSIVE str(_)
str(n) == IF n < 10 THEN <<Digits[n + 1]>> ELSE str(n \div 10) \o <<Digits[(n % 10) + 1]>>

\* s.strip(): s without its leading and trailing whitespace.
RECURSIVE lstrip(_)
lstrip(s) == IF s # <<>> /\ Head(s) \in Whitespace THEN lstrip(Tail(s)) ELSE s

RECURSIVE rstrip(_)
rstrip(s) ==
    IF s # <<>> /\ s[Len(s)] \in Whitespace THEN rstrip(SubSeq(s, 1, Len(s) - 1)) ELSE s

strip(s) == lstrip(rstrip(s))

\* ------------------------------------------------------- the dedup store
\* The lines of a file as Python iterates them: each ends at a newline
\* (kept in the line) or at the end of the file.
RECURSIVE FileLines(_, _)
FileLines(f, cur) ==
    IF f = <<>> THEN (IF cur = <<>> THEN {} ELSE {cur})
    ELSE IF Head(f) = Newline THEN {cur \o <<Newline>>} \cup FileLines(Tail(f), <<>>)
    ELSE FileLines(Tail(f), cur \o <<Head(f)>>)

\* Mutant: the lines are not stripped.
load_processed_ids_raw(file) == FileLines(file, <<>>)

\* load_processed_ids(): the set of stripped lines; a missing file (the
\* empty sequence here) gives the empty set.
load_processed_ids(file) == {strip(line) : line \in FileLines(file, <<>>)}

\* Mutant: the file is opened with 'w': the id replaces what was there.
save_processed_id_truncate(file, message_id) == message_id \o <<Newline>>

\* Mutant: the id is written without its newline.
save_processed_id_no_newline(file, message_id) == file \o message_id

\* save_processed_id(message_id): append str(message_id) and a newline.
save_processed_id(file, message_id) == file \o message_id \o <<Newline>>

\* ---------------------------------------------------------- message_regex
\* The literal words of the pattern; re.IGNORECASE makes the letter case of
\* the keywords irrelevant.
BoxEmoji == "BOX"
BulbEmoji == "BULB"
BagEmoji == "BAG"
Rupee == "RUPEE"
Arrow == "ARROW"
ProductWords == {"Product:", "product:", "PRODUCT:"}
PriceWords == {"Price:", "price:", "PRICE:"}
LinkWords == {"Link:", "link:", "LINK:"}
SchemeWords == {"http://", "https://", "HTTP://", "HTTPS://"}

\* Character classes: "." under re.DOTALL, \s, [\d,] and \S.
InClass(cls, tok) ==
    CASE cls = "any" -> TRUE
      [] cls = "space" -> tok \in Whitespace
      [] cls = "digit" -> tok \in DigitSet \cup {","}
      [] cls = "nonspace" -> tok \notin Whitespace

Lit(set) == [k |-> "lit", set |-> set]
Rep(cls, min, greedy) == [k |-> "rep", cls |-> cls, min |-> min, greedy |-> greedy]
Open(grp) == [k |-> "open", grp |-> grp]
Close(grp) == [k |-> "close", grp |-> grp]

\* message_regex, element by element.  (?:\n BULB|\n BAG) is written as the
\* newline followed by one of the two emoji, which is the same pattern.
message_regex ==
    << Lit({BoxEmoji}), Rep("space", 0, TRUE), Lit(ProductWords), Rep("space", 0, TRUE),
       Open("product_name"), Rep("any", 1, FALSE), Close("product_name"),
       Rep("space", 0, TRUE), Lit({Newline}), Lit({BulbEmoji, BagEmoji}),
       Rep("any", 0, FALSE),
       Lit({BagEmoji}), Rep("space", 0, TRUE), Lit(PriceWords), Rep("space", 0, TRUE),
       Lit({Rupee}), Open("before_price"), Rep("digit", 1, TRUE), Close("before_price"),
       Rep("space", 0, TRUE), Lit({Arrow}), Rep("space", 0, TRUE),
       Lit({Rupee}), Open("after_price"), Rep("digit", 1, TRUE), Close("after_price"),
       Rep("any", 0, FALSE),
       Lit(LinkWords), Rep("space", 0, TRUE),
       Open("link"), Lit(SchemeWords), Rep("nonspace", 1, TRUE), Close("link") >>

GroupNames == {"product_name", "before_price", "after_price", "link"}
NoMatch == [ok |-> FALSE]
NoGroups == [g \in GroupNames |-> <<0, 0>>]

\* The number of consecutive tokens of class cls in t from position pos.
RECURSIVE RunLength(_, _, _)
RunLength(t, pos, cls) ==
    IF pos <= Len(t) /\ InClass(cls, t[pos]) THEN 1 + RunLength(t, pos + 1, cls) ELSE 0

\* The backtracking matcher: the first match, in the regex engine's order of
\* preference (a greedy repetition tries its longest run first, a lazy one
\* its shortest), of the elements k.. of the pattern at position pos.
RECURSIVE MatchAt(_, _, _, _)
RECURSIVE TryRep(_, _, _, _, _)
MatchAt(t, k, pos, groups) ==
    IF k > Len(message_regex) THEN [ok |-> TRUE, groups |-> groups]
    ELSE LET e == message_regex[k] IN
         CASE e.k = "lit" ->
                IF pos <= Len(t) /\ t[pos] \in e.set
                THEN MatchAt(t, k + 1, pos + 1, groups) ELSE NoMatch
           [] e.k = "open" ->
                MatchAt(t, k + 1, pos, [groups EXCEPT ![e.grp] = <<pos, pos>>])
           [] e.k = "close" ->
                MatchAt(t, k + 1, pos, [groups EXCEPT ![e.grp] = <<@[1], pos>>])
           [] e.k = "rep" ->
                TryRep(t, k, pos, groups,
                       IF e.greedy THEN RunLength(t, pos, e.cls) ELSE e.min)

TryRep(t, k, pos, groups, n) ==
    LET e == message_regex[k] IN
    IF n < e.min \/ n > RunLength(t, pos, e.cls) THEN NoMatch
    ELSE LET r == MatchAt(t, k + 1, pos + n, groups) IN
         IF r.ok THEN r
         ELSE TryRep(t, k, pos, groups, IF e.greedy THEN n - 1 ELSE n + 1)

\* message_regex.search(text): the match at the leftmost position that has one.
RECURSIVE SearchFrom(_, _)
SearchFrom(t, pos) ==
    IF pos > Len(t) THEN NoMatch
    ELSE LET r == MatchAt(t, 1, pos, NoGroups) IN
         IF r.ok THEN r ELSE SearchFrom(t, pos + 1)

message_regex_search(t) == SearchFrom(t, 1)

\* match.group(name): the tokens the named group captured.
group(t, m, name) == SubSeq(t, m.groups[name][1], m.groups[name][2] - 1)

\* ------------------------------------------------------ get_affiliate_link
\* What requests.post can come back with: a transport failure, or a response
\* with a status and a body.  json is the kind of value response.json()
\* yields ("invalid": the body is no JSON); has tells whether 'affiliate_link'
\* is a key of the object (an element of the list); value is what the key maps to and isstr whether it is a string.
AffiliateUrl == <<"https://", "a", "/", "x">>
NullText == <<"N", "o", "n", "e">>          \* str(None)
Response(kind, status, json, has, isstr, value) ==
    [kind |-> kind, status |-> status, json |-> json, has |-> has,
     isstr |-> isstr, value |-> value]
Responses ==
    { Response("Timeout", 0, "none", FALSE, FALSE, <<>>),
      Response("ConnectionError", 0, "none", FALSE, FALSE, <<>>),
      Response("http", 500, "none", FALSE, FALSE, <<>>),
      Response("http", 200, "object", TRUE, TRUE, AffiliateUrl),
      Response("http", 200, "object", FALSE, FALSE, <<>>),
      Response("http", 200, "object", TRUE, FALSE, NullText),
      Response("http", 200, "invalid", FALSE, FALSE, <<>>),
      Response("http", 200, "null", FALSE, FALSE, <<>>),
      Response("http", 200, "list", FALSE, FALSE, <<>>),
      Response("http", 200, "list", TRUE, FALSE, <<>>) }

\* Is the value a false one for Python ("not x"): None or the empty string.
Unset == <<>>
not(x) == x = Unset

Return(value) == [raised |-> FALSE, exc |-> "", value |-> value]
Raise(exc) == [raised |-> TRUE, exc |-> exc, value |-> <<>>]

\* response.raise_for_status(): an HTTPError for a 4xx or 5xx status.
raise_for_status(response) == response.status >= 400 /\ response.status < 600

\* The body of the try block of get_affiliate_link, after requests.post
\* returned: lines 61-70.  old_json: response.json() of a requests version
\* before 2.27 raises a plain ValueError on a body that is no JSON; later
\* versions raise requests.JSONDecodeError, a RequestException.
read_response(original_link, response, old_json) ==
    IF raise_for_status(response) THEN Raise("HTTPError")
    ELSE CASE response.json = "invalid" ->
                IF old_json THEN Raise("ValueError") ELSE Raise("JSONDecodeError")
           [] response.json = "null" -> Raise("TypeError")
           [] response.json = "list" ->
                IF response.has THEN Raise("TypeError") ELSE Return(original_link)
           [] response.json = "object" ->
                IF response.has THEN Return(response.value) ELSE Return(original_link)

\* Mutant: the handler catches the transport failures only.
RequestException_transport == {"Timeout", "ConnectionError"}

\* except requests.RequestException: the exceptions the handler catches.
RequestException == {"Timeout", "ConnectionError", "HTTPError", "JSONDecodeError"}

\* Mutant: the endpoint is asked, and its answer used, without the check
\* that one is configured.
get_affiliate_link_unchecked(endpoint, original_link, response, old_json) ==
    LET r == IF response.kind # "http" THEN Raise(response.kind)
             ELSE read_response(original_link, response, old_json)
    IN IF r.raised /\ r.exc \in RequestException THEN Return(original_link) ELSE r

\* get_affiliate_link(original_link), given what the endpoint answers.
\* No request is made without an endpoint: see requested().
get_affiliate_link(endpoint, original_link, response, old_json) ==
    IF not(endpoint) THEN Return(original_link)
    ELSE LET r == IF response.kind # "http" THEN Raise(response.kind)
                  ELSE read_response(original_link, response, old_json)
         IN IF r.raised /\ r.exc \in RequestException THEN Return(original_link) ELSE r

\* Does get_affiliate_link call requests.post?
requested(endpoint) == ~not(endpoint)

\* ------------------------------------------------------------ final_message
\* The f-string of process_message, lines 105-109.
LinkEmoji == "CHAIN"
\* Mutant: the first line of the message does not carry the product name.
final_message_no_name(product_name, before_price, after_price, affiliate_link) ==
    <<BoxEmoji, " ", "*", "*", "Product:", "*", "*", " ">> \o
    <<Newline, BagEmoji, " ", "*", "*", "Price:", "*", "*", " ", Rupee>> \o before_price \o
    <<" ", Arrow, " ", Rupee>> \o after_price \o
    <<Newline, LinkEmoji, " ", "*", "*", "Affiliate", " ", "Link:", "*", "*", " ",
      "[", "Buy", " ", "Now", "]", "(">> \o affiliate_link \o <<")">>

final_message(product_name, before_price, after_price, affiliate_link) ==
    <<BoxEmoji, " ", "*", "*", "Product:", "*", "*", " ">> \o product_name \o
    <<Newline, BagEmoji, " ", "*", "*", "Price:", "*", "*", " ", Rupee>> \o before_price \o
    <<" ", Arrow, " ", Rupee>> \o after_price \o
    <<Newline, LinkEmoji, " ", "*", "*", "Affiliate", " ", "Link:", "*", "*", " ",
      "[", "Buy", " ", "Now", "]", "(">> \o affiliate_link \o <<")">>

\* ------------------------------------------------------------ environment
SourceChat == 100       \* the chat SOURCE_CHAT_ID names
TargetChat == 300       \* the chat TARGET_CHAT_ID names
Procs == {1, 2}         \* the processes that can run the script

\* The four environment variables; Unset is a variable that is missing or empty.
Configs ==
    [token : {Unset, <<"t">>}, source : {Unset, str(SourceChat)},
     target : {Unset, str(TargetChat)}, endpoint : {Unset, <<"u">>}]
NoConfig == [token |-> Unset, source |-> Unset, target |-> Unset, endpoint |-> Unset]

\* A deal post that message_regex matches.
DealText(name, before, after, link) ==
    <<BoxEmoji, Space, "Product:", Space>> \o name \o
    <<Newline, BulbEmoji, Space, "n", "e", "w", Newline, BagEmoji, Space, "Price:", Space,
      Rupee>> \o before \o <<Space, Arrow, Space, Rupee>> \o after \o
    <<Newline, "Link:", Space>> \o link

\* An update: has tells whether update.channel_post or update.message is a
\* message; text is empty for a message without text.
Update(has, chat_id, message_id, text) ==
    [has |-> has, chat_id |-> chat_id, message_id |-> message_id, text |-> text]

Updates ==
    { Update(TRUE, SourceChat, 7,
             DealText(<<"W", "M">>, <<"1", ",", "9">>, <<"9">>, <<"https://", "e", "/", "i">>)),
      Update(TRUE, SourceChat, 10,
             DealText(<<"U", "_", "C", Space>>, <<"5", "0">>, <<"4">>,
                      <<"http://", "e", "(", "1", ")">>) \o <<Newline, "z">>),
      Update(TRUE, SourceChat, 3, <<"h", "i", Space, "Link:", Space, "http://", "e">>),
      Update(TRUE, SourceChat, 4, <<>>),
      Update(TRUE, 200, 7,
             DealText(<<"W", "M">>, <<"1", ",", "9">>, <<"9">>, <<"https://", "e", "/", "i">>)),
      Update(FALSE, 0, 0, <<>>) }

MessageIds == {u.message_id : u \in {v \in Updates : v.has}}

\* The batches get_updates can return.  Message ids are unique within a chat,
\* so a batch repeats no message unless the mode says so.
Repeats(b) ==
    \E i, j \in 1..Len(b) :
        i # j /\ b[i].has /\ b[j].has
        /\ b[i].chat_id = b[j].chat_id /\ b[i].message_id = b[j].message_id

SeqsUpTo(S, n) == UNION {[1..k -> S] : k \in 0..n}

Batches(m) == {b \in SeqsUpTo(Updates, m.batch) : m.repeats \/ ~Repeats(b)}

\* ------------------------------------------------------------------ state
VARIABLES
    file,            \* processed_message_ids.txt, as a sequence of characters
    mode,            \* what the scheduler and the transport allow, and whether
                     \* prev is kept (never changes)
    runs,            \* the number of runs started
    pc,              \* where each process is
    cfg,             \* the environment variables each process read
    updates,         \* the batch get_updates returned
    idx,             \* the position of the for loop in the batch
    deal,            \* the fields process_message extracted
    response,        \* what the affiliate endpoint answered for this candidate
    affiliate_link,  \* what get_affiliate_link returned
    outcome,         \* history: what became of each update of the batch
    sent,            \* history: the send_message calls of this run
    http,            \* history: the positions this run called the endpoint for
    file0,           \* history: the file when the run started
    end,             \* history: how main ended
    pubs,            \* history: confirmed sends per message id, over all runs
    lostCrash,       \* history: ids sent, then the process died before the write
    lostWrite,       \* history: ids sent, then the write failed
    prev             \* history: the batch of the last run and the ids whose send
                     \* failed in it (NoPrev when none failed or the run was killed)

vars == <<file, mode, runs, pc, cfg, updates, idx, deal, response, affiliate_link,
          outcome, sent, http, file0, end, pubs, lostCrash, lostWrite, prev>>

NoDeal == [product_name |-> <<>>, before_price |-> <<>>, after_price |-> <<>>, link |-> <<>>]
NoPrev == [updates |-> <<>>, failed |-> {}]
NoResponse == Response("none", 0, "none", FALSE, FALSE, <<>>)

InitCommon ==
    /\ file = <<>>
    /\ runs = 0
    /\ pc = [p \in Procs |-> "idle"]
    /\ cfg = [p \in Procs |-> NoConfig]
    /\ updates = [p \in Procs |-> <<>>]
    /\ idx = [p \in Procs |-> 0]
    /\ deal = [p \in Procs |-> NoDeal]
    /\ response = [p \in Procs |-> NoResponse]
    /\ affiliate_link = [p \in Procs |-> <<>>]
    /\ outcome = [p \in Procs |-> <<>>]
    /\ sent = [p \in Procs |-> {}]
    /\ http = [p \in Procs |-> {}]
    /\ file0 = [p \in Procs |-> <<>>]
    /\ end = [p \in Procs |-> ""]
    /\ pubs = [i \in MessageIds |-> 0]
    /\ lostCrash = {}
    /\ lostWrite = {}
    /\ prev = NoPrev

\* Runs one after the other, as the scheduler is required to start them.
\* track is 0, or the id of a message that the scheduler and the transports
\* treat as Tracked(m) says; then runs are started for ever.
Mode(overlap, repeats, remember, batch) ==
    [overlap |-> overlap, repeats |-> repeats, remember |-> remember, batch |-> batch,
     track |-> 0]

Init == InitCommon /\ mode = Mode(FALSE, FALSE, FALSE, MaxBatch)

\* The same, with the history of the previous run kept in prev.
InitRetry == InitCommon /\ mode = Mode(FALSE, FALSE, TRUE, MaxBatch)

\* Runs that the scheduler lets overlap.
InitOverlap == InitCommon /\ mode = Mode(TRUE, FALSE, FALSE, MaxOverlapBatch)

\* Sequential runs whose batch can hold the same message more than once.
InitRepeat == InitCommon /\ mode = Mode(FALSE, TRUE, FALSE, MaxBatch)

\* ---------------------------------------------------------------- actions
Idle(p) == pc[p] = "idle"

\* What a process forgets when it ends.
Forget(p) ==
    /\ cfg' = [cfg EXCEPT ![p] = NoConfig]
    /\ updates' = [updates EXCEPT ![p] = <<>>]
    /\ idx' = [idx EXCEPT ![p] = 0]
    /\ deal' = [deal EXCEPT ![p] = NoDeal]
    /\ response' = [response EXCEPT ![p] = NoResponse]
    /\ affiliate_link' = [affiliate_link EXCEPT ![p] = <<>>]
    /\ outcome' = [outcome EXCEPT ![p] = <<>>]
    /\ sent' = [sent EXCEPT ![p] = {}]
    /\ http' = [http EXCEPT ![p] = {}]
    /\ file0' = [file0 EXCEPT ![p] = <<>>]
    /\ end' = [end EXCEPT ![p] = ""]

\* The scheduler starts the script: the module reads its environment
\* (lines 11-14) and asyncio.run(main()) begins.
Start(p) ==
    /\ Idle(p)
    /\ mode.track # 0 \/ runs < MaxRuns
    /\ \A q \in Procs : q < p => ~Idle(q)
    /\ mode.overlap \/ \A q \in Procs : Idle(q)
    /\ \E c \in Configs : cfg' = [cfg EXCEPT ![p] = c]
    /\ runs' = IF runs < MaxRuns THEN runs + 1 ELSE runs
    /\ pc' = [pc EXCEPT ![p] = "main"]
    /\ file0' = [file0 EXCEPT ![p] = file]
    /\ UNCHANGED <<file, mode, updates, idx, deal, response, affiliate_link, outcome,
                   sent, http, end, pubs, lostCrash, lostWrite, prev>>

\* Mutant: TARGET_CHAT_ID is left out of the list that all() is given.
all_mandatory_no_target(c) == ~not(c.token) /\ ~not(c.source)

\* all([TELEGRAM_BOT_TOKEN, SOURCE_CHAT_ID, TARGET_CHAT_ID])
all_mandatory(c) == ~not(c.token) /\ ~not(c.source) /\ ~not(c.target)

\* main, lines 126-131: return when a mandatory variable is missing; else
\* build the Bot and load the ids (into a variable nothing reads).
main_begin(p) ==
    /\ pc[p] = "main"
    /\ IF all_mandatory(cfg[p])
       THEN /\ pc' = [pc EXCEPT ![p] = "get_updates"]
            /\ end' = end
       ELSE /\ pc' = [pc EXCEPT ![p] = "done"]
            /\ end' = [end EXCEPT ![p] = "no_config"]
    /\ UNCHANGED <<file, mode, runs, cfg, updates, idx, deal, response, affiliate_link,
                   outcome, sent, http, file0, pubs, lostCrash, lostWrite, prev>>

\* main, line 136: bot.get_updates returns a batch ...
get_updates_ok(p) ==
    /\ pc[p] = "get_updates"
    /\ \E b \in Batches(mode) :
          /\ updates' = [updates EXCEPT ![p] = b]
          /\ outcome' = [outcome EXCEPT ![p] = [i \in 1..Len(b) |-> "unseen"]]
    /\ idx' = [idx EXCEPT ![p] = 1]
    /\ pc' = [pc EXCEPT ![p] = "for"]
    /\ UNCHANGED <<file, mode, runs, cfg, deal, response, affiliate_link, sent, http,
                   file0, end, pubs, lostCrash, lostWrite, prev>>

\* Mutant: the handler of the fetch error empties the file.
get_updates_error_reset(p) ==
    /\ pc[p] = "get_updates"
    /\ pc' = [pc EXCEPT ![p] = "done"]
    /\ end' = [end EXCEPT ![p] = "fetch_error"]
    /\ file' = <<>>
    /\ UNCHANGED <<mode, runs, cfg, updates, idx, deal, response, affiliate_link,
                   outcome, sent, http, file0, pubs, lostCrash, lostWrite, prev>>

\* ... or raises a TelegramError, which line 161 catches: main returns.
get_updates_error(p) ==
    /\ pc[p] = "get_updates"
    /\ pc' = [pc EXCEPT ![p] = "done"]
    /\ end' = [end EXCEPT ![p] = "fetch_error"]
    /\ UNCHANGED <<file, mode, runs, cfg, updates, idx, deal, response, affiliate_link,
                   outcome, sent, http, file0, pubs, lostCrash, lostWrite, prev>>

\* The candidate is finished with the given outcome: back to the for loop.
NextUpdate(p, what) ==
    /\ outcome' = [outcome EXCEPT ![p][idx[p]] = what]
    /\ idx' = [idx EXCEPT ![p] = @ + 1]
    /\ deal' = [deal EXCEPT ![p] = NoDeal]
    /\ response' = [response EXCEPT ![p] = NoResponse]
    /\ affiliate_link' = [affiliate_link EXCEPT ![p] = <<>>]
    /\ pc' = [pc EXCEPT ![p] = "for"]

\* An exception leaves process_message: "except Exception" of main (line 163)
\* catches it outside the for loop, and main returns.
Unexpected(p, what) ==
    /\ outcome' = [outcome EXCEPT ![p][idx[p]] = what]
    /\ end' = [end EXCEPT ![p] = "error"]
    /\ pc' = [pc EXCEPT ![p] = "done"]

\* Mutant: the chat of the message is not compared with SOURCE_CHAT_ID.
from_source_any(c, u) == u.has

\* update.channel_post or update.message is a message of the source chat.
from_source(c, u) == u.has /\ str(u.chat_id) = c.source

\* main, lines 156-158: the for loop takes the next update, or ends.
for_update(p) ==
    /\ pc[p] = "for"
    /\ IF idx[p] > Len(updates[p])
       THEN /\ pc' = [pc EXCEPT ![p] = "done"]
            /\ end' = [end EXCEPT ![p] = "complete"]
            /\ UNCHANGED <<idx, outcome, deal, response, affiliate_link>>
       ELSE IF from_source(cfg[p], updates[p][idx[p]])
       THEN /\ pc' = [pc EXCEPT ![p] = "process_message"]
            /\ UNCHANGED <<idx, outcome, deal, response, affiliate_link, end>>
       ELSE /\ NextUpdate(p, "filtered")
            /\ end' = end
    /\ UNCHANGED <<file, mode, runs, cfg, updates, sent, http, file0, pubs, lostCrash,
                   lostWrite, prev>>

\* Mutant: the id is compared with the whole content of the file.
already_processed_whole(f, message_id) == message_id = strip(f)

\* Is the id among the ids the file holds?  (lines 83-84)
already_processed(f, message_id) == message_id \in load_processed_ids(f)

\* The stripped groups of a match (lines 94-97).
extract(t, m) ==
    [product_name |-> strip(group(t, m, "product_name")),
     before_price |-> strip(group(t, m, "before_price")),
     after_price |-> strip(group(t, m, "after_price")),
     link |-> strip(group(t, m, "link"))]

\* Mutant: the id is looked up in the set main loaded when the run started
\* (line 131), not in the file as it is now.
process_message_snapshot(p) ==
    /\ pc[p] = "process_message"
    /\ LET message == updates[p][idx[p]]
           message_id == str(message.message_id)
           match == message_regex_search(message.text)
       IN IF not(message.text) THEN NextUpdate(p, "no_text")
          ELSE IF already_processed(file0[p], message_id) THEN NextUpdate(p, "duplicate")
          ELSE IF ~match.ok THEN NextUpdate(p, "no_match")
          ELSE /\ deal' = [deal EXCEPT ![p] = extract(message.text, match)]
               /\ pc' = [pc EXCEPT ![p] = "get_affiliate_link"]
               /\ UNCHANGED <<idx, outcome, response, affiliate_link>>
    /\ UNCHANGED <<file, mode, runs, cfg, updates, sent, http, file0, end, pubs,
                   lostCrash, lostWrite, prev>>

\* process_message, lines 77-99: no text, a known id or no match end the
\* candidate; else the fields are extracted.
process_message(p) ==
    /\ pc[p] = "process_message"
    /\ LET message == updates[p][idx[p]]
           message_id == str(message.message_id)
           match == message_regex_search(message.text)
       IN IF not(message.text) THEN NextUpdate(p, "no_text")
          ELSE IF already_processed(file, message_id) THEN NextUpdate(p, "duplicate")
          ELSE IF ~match.ok THEN NextUpdate(p, "no_match")
          ELSE /\ deal' = [deal EXCEPT ![p] = extract(message.text, match)]
               /\ pc' = [pc EXCEPT ![p] = "get_affiliate_link"]
               /\ UNCHANGED <<idx, outcome, response, affiliate_link>>
    /\ UNCHANGED <<file, mode, runs, cfg, updates, sent, http, file0, end, pubs,
                   lostCrash, lostWrite, prev>>

\* process_message, line 102: the call of get_affiliate_link.  With an
\* endpoint it makes one request, and the endpoint answers anything.
resolve(p) ==
    /\ pc[p] = "get_affiliate_link"
    /\ \E resp \in Responses, old_json \in BOOLEAN :
          LET r == get_affiliate_link(cfg[p].endpoint, deal[p].link, resp, old_json)
              asked == requested(cfg[p].endpoint)
          IN /\ http' = [http EXCEPT ![p] = IF asked THEN @ \cup {idx[p]} ELSE @]
             /\ response' = [response EXCEPT ![p] = IF asked THEN resp ELSE NoResponse]
             /\ IF r.raised
                THEN /\ Unexpected(p, "raised")
                     /\ UNCHANGED affiliate_link
                ELSE /\ affiliate_link' = [affiliate_link EXCEPT ![p] = r.value]
                     /\ pc' = [pc EXCEPT ![p] = "send_message"]
                     /\ UNCHANGED <<outcome, end>>
    /\ UNCHANGED <<file, mode, runs, cfg, updates, idx, deal, sent, file0, pubs,
                   lostCrash, lostWrite, prev>>

\* The send_message call of lines 113-118.
Outbound(p, ok) ==
    [pos |-> idx[p], chat_id |-> cfg[p].target,
     text |-> final_message(deal[p].product_name, deal[p].before_price,
                            deal[p].after_price, affiliate_link[p]),
     parse_mode |-> "Markdown", ok |-> ok]

\* process_message, lines 112-119: the send is confirmed ...
send_message_ok(p) ==
    /\ pc[p] = "send_message"
    /\ sent' = [sent EXCEPT ![p] = @ \cup {Outbound(p, TRUE)}]
    /\ pubs' = [pubs EXCEPT ![updates[p][idx[p]].message_id] = @ + 1]
    /\ outcome' = [outcome EXCEPT ![p][idx[p]] = "published"]
    /\ pc' = [pc EXCEPT ![p] = "save_processed_id"]
    /\ UNCHANGED <<file, mode, runs, cfg, updates, idx, deal, response, affiliate_link,
                   http, file0, end, lostCrash, lostWrite, prev>>

\* Mutant: the id is saved whether the send was confirmed or not.
send_message_error_saved(p) ==
    /\ pc[p] = "send_message"
    /\ sent' = [sent EXCEPT ![p] = @ \cup {Outbound(p, FALSE)}]
    /\ file' = save_processed_id(file, str(updates[p][idx[p]].message_id))
    /\ NextUpdate(p, "failed")
    /\ UNCHANGED <<mode, runs, cfg, updates, http, file0, end, pubs, lostCrash,
                   lostWrite, prev>>

\* ... or raises a TelegramError, which line 121 catches: the candidate ends.
send_message_error(p) ==
    /\ pc[p] = "send_message"
    /\ sent' = [sent EXCEPT ![p] = @ \cup {Outbound(p, FALSE)}]
    /\ NextUpdate(p, "failed")
    /\ UNCHANGED <<file, mode, runs, cfg, updates, http, file0, end, pubs, lostCrash,
                   lostWrite, prev>>

\* process_message, line 120: save_processed_id appends the id ...
save_ok(p) ==
    /\ pc[p] = "save_processed_id"
    /\ file' = save_processed_id(file, str(updates[p][idx[p]].message_id))
    /\ NextUpdate(p, "recorded")
    /\ UNCHANGED <<mode, runs, cfg, updates, sent, http, file0, end, pubs, lostCrash,
                   lostWrite, prev>>

\* ... or open/write raises an OSError, which is no TelegramError.
save_error(p) ==
    /\ pc[p] = "save_processed_id"
    /\ lostWrite' = lostWrite \cup {updates[p][idx[p]].message_id}
    /\ Unexpected(p, "published")
    /\ UNCHANGED <<file, mode, runs, cfg, updates, idx, deal, response, affiliate_link,
                   sent, http, file0, pubs, lostCrash, prev>>

\* The ids whose send failed in the run of p.
failed_ids(p) ==
    {updates[p][i].message_id : i \in {j \in 1..Len(updates[p]) : outcome[p][j] = "failed"}}

\* main returned: the process ends.
Exit(p) ==
    /\ pc[p] = "done"
    /\ pc' = [pc EXCEPT ![p] = "idle"]
    /\ prev' = IF failed_ids(p) = {} \/ ~mode.remember THEN NoPrev
               ELSE [updates |-> updates[p], failed |-> failed_ids(p)]
    /\ Forget(p)
    /\ UNCHANGED <<file, mode, runs, pubs, lostCrash, lostWrite>>

\* The process is killed while it runs.
Crash(p) ==
    /\ pc[p] \notin {"idle", "done"}
    /\ pc' = [pc EXCEPT ![p] = "idle"]
    /\ lostCrash' = IF pc[p] = "save_processed_id"
                    THEN lostCrash \cup {updates[p][idx[p]].message_id} ELSE lostCrash
    /\ prev' = NoPrev
    /\ Forget(p)
    /\ UNCHANGED <<file, mode, runs, pubs, lostWrite>>

Next ==
    \E p \in Procs :
        \/ Start(p) \/ main_begin(p) \/ get_updates_ok(p) \/ get_updates_error(p)
        \/ for_update(p) \/ process_message(p) \/ resolve(p)
        \/ send_message_ok(p) \/ send_message_error(p) \/ save_ok(p) \/ save_error(p)
        \/ Exit(p) \/ Crash(p)

Spec == Init /\ [][Next]_vars

SpecOverlap == InitOverlap /\ [][Next]_vars

SpecRetry == InitRetry /\ [][Next]_vars

SpecRepeat == InitRepeat /\ [][Next]_vars

\* ------------------------------------------------- the parser on its own
\* Texts for message_regex, put together from a product part, what ends the
\* name, a price part and a link part, each in several shapes or missing,
\* in every order of the three parts.
ParseNames == {<<"W">>, <<"W", Space, "M">>}
ProductParts ==
    {<<>>} \cup {<<BoxEmoji, Space, w, Space>> \o n : w \in {"Product:", "product:"},
                                                      n \in ParseNames}
NameEnds ==
    { <<Newline>>,
      <<Newline, BulbEmoji, Space, "n", Newline>>,
      <<Space>>,
      <<Space, Newline, BagEmoji, Space, "x", Newline>> }
PriceParts ==
    { <<>>,
      <<BagEmoji, Space, "Price:", Space, Rupee, "1", ",", "9", Space, Arrow, Space, Rupee, "9">>,
      <<BagEmoji, "PRICE:", Rupee, "5", Arrow, Rupee, "4">>,
      <<BagEmoji, Space, "Price:", Space, Rupee, "5">> }
LinkParts ==
    { <<>>,
      <<"Link:", Space, "https://", "e", "/", "i">>,
      <<"link:", "http://", "e", Space, "z">>,
      <<"Link:", Space, "f", "t", "p">> }
PartOrders == {o \in [1..3 -> 1..3] : \A a, b \in 1..3 : a # b => o[a] # o[b]}
ParseText(product, name_end, price, link, o) ==
    LET part == <<product \o name_end, price \o <<Newline>>, link \o <<Newline>>>>
    IN part[o[1]] \o part[o[2]] \o part[o[3]]
ParseTexts ==
    {ParseText(a, b, c, d, o) : a \in ProductParts, b \in NameEnds, c \in PriceParts,
                                d \in LinkParts, o \in PartOrders}

\* A run that is about to hand process_message a message of the source chat
\* with one of these texts: the first update of its batch, the store empty.
InitParse ==
    \E t \in ParseTexts, c \in {k \in Configs : all_mandatory(k)} :
        /\ file = <<>>
        /\ mode = Mode(FALSE, FALSE, FALSE, MaxBatch)
        /\ runs = 1
        /\ pc = [p \in Procs |-> IF p = 1 THEN "process_message" ELSE "idle"]
        /\ cfg = [p \in Procs |-> IF p = 1 THEN c ELSE NoConfig]
        /\ updates = [p \in Procs |-> IF p = 1 THEN <<Update(TRUE, SourceChat, 7, t)>> ELSE <<>>]
        /\ idx = [p \in Procs |-> IF p = 1 THEN 1 ELSE 0]
        /\ deal = [p \in Procs |-> NoDeal]
        /\ response = [p \in Procs |-> NoResponse]
        /\ affiliate_link = [p \in Procs |-> <<>>]
        /\ outcome = [p \in Procs |-> IF p = 1 THEN <<"unseen">> ELSE <<>>]
        /\ sent = [p \in Procs |-> {}]
        /\ http = [p \in Procs |-> {}]
        /\ file0 = [p \in Procs |-> <<>>]
        /\ end = [p \in Procs |-> ""]
        /\ pubs = [i \in MessageIds |-> 0]
        /\ lostCrash = {}
        /\ lostWrite = {}
        /\ prev = NoPrev

\* The one step of that run: process_message up to the extraction.
NextParse == \E p \in Procs : process_message(p)

SpecParse == InitParse /\ [][NextParse]_vars

\* ------------------------------------------------ runs that do not abort
\* The deal posts of the source chat: messages with a text that matches.
DealIds ==
    {u.message_id : u \in {v \in Updates : v.has /\ v.chat_id = SourceChat
                                           /\ message_regex_search(v.text).ok}}

\* Sequential runs, started again and again, with one of the deal posts
\* tracked: see Tracked.
InitLive ==
    /\ InitCommon
    /\ \E i \in DealIds : mode = [Mode(FALSE, FALSE, FALSE, MaxBatch) EXCEPT !.track = i]

\* The batch holds the tracked message, as a message of the source chat.
Tracked(c, b) ==
    \E j \in 1..Len(b) : from_source(c, b[j]) /\ b[j].message_id = mode.track

\* The steps of a run that does not abort: the mandatory variables are set,
\* get_updates returns a batch (with the tracked message in it as long as
\* its id is not in the file), get_affiliate_link returns, the write of the
\* id succeeds and the process is not killed.
LiveStart(p) == Start(p) /\ all_mandatory(cfg'[p])
LiveFetch(p) ==
    /\ get_updates_ok(p)
    /\ already_processed(file, str(mode.track)) \/ Tracked(cfg[p], updates'[p])
LiveResolve(p) == resolve(p) /\ pc'[p] = "send_message"

\* Every step but the failed send.
Progress(p) ==
    \/ LiveStart(p) \/ main_begin(p) \/ LiveFetch(p) \/ for_update(p)
    \/ process_message(p) \/ LiveResolve(p) \/ send_message_ok(p) \/ save_ok(p) \/ Exit(p)

\* The steps a run is sure to take when it can.  process_message is not
\* among them: it can be taken whenever the process is at it, which AtParse
\* says without an evaluation of the pattern.
Scheduled(p) ==
    \/ LiveStart(p) \/ main_begin(p) \/ LiveFetch(p) \/ for_update(p)
    \/ LiveResolve(p) \/ send_message_ok(p) \/ save_ok(p) \/ Exit(p)
AtParse == \E p \in Procs : pc[p] = "process_message"

\* The send of the tracked message is confirmed.
TrackedSent(p) ==
    send_message_ok(p) /\ updates[p][idx[p]].message_id = mode.track

NextLive == \E p \in Procs : Progress(p) \/ send_message_error(p)

\* The scheduler keeps starting runs and a run keeps going; the send of the
\* tracked message does not fail for ever.
SpecLive ==
    /\ InitLive /\ [][NextLive]_vars
    /\ WF_vars(\E p \in Procs : Scheduled(p))
    /\ []<>~AtParse
    /\ SF_vars(\E p \in Procs : TrackedSent(p))

\* ==================================================================== claims
\* What the claims read off the file, independently of load_processed_ids:
\* the lines of the file, in order, without their newline.
RECURSIVE LineSeq(_, _)
LineSeq(f, cur) ==
    IF f = <<>> THEN (IF cur = <<>> THEN <<>> ELSE <<cur>>)
    ELSE IF Head(f) = Newline THEN <<cur>> \o LineSeq(Tail(f), <<>>)
    ELSE LineSeq(Tail(f), cur \o <<Head(f)>>)

\* How many lines of the file are the id i.
Count(f, i) ==
    LET lines == LineSeq(f, <<>>)
        id == str(i)
    IN Cardinality({k \in 1..Len(lines) : lines[k] = id})
InStore(f, i) ==
    LET lines == LineSeq(f, <<>>)
        id == str(i)
    IN \E k \in 1..Len(lines) : lines[k] = id

\* The message process p is working on, and the candidates of its batch.
Current(p) == updates[p][idx[p]]
Candidates(p) == {j \in 1..Len(updates[p]) : from_source(cfg[p], updates[p][j])}

\* ---------------------------------------------------------------------- C1
\* C1: every id in the store is the id of a message whose send was confirmed
\* before: each line of the file is the id of a message with a confirmed
\* send; a candidate that was skipped, or whose send failed, has put no id
\* into the file; and while a candidate waits for its send to be confirmed
\* its id is not in the file.
C1_StoredOnlyAfterConfirmedSend ==
    /\ LET lines == LineSeq(file, <<>>)
       IN \A k \in 1..Len(lines) : \E i \in MessageIds : lines[k] = str(i) /\ pubs[i] > 0
    /\ \A p \in Procs : \A j \in Candidates(p) :
          outcome[p][j] \in {"no_text", "no_match", "failed", "raised"}
             => (InStore(file, updates[p][j].message_id)
                    => InStore(file0[p], updates[p][j].message_id))
    /\ \A p \in Procs :
          pc[p] \in {"get_affiliate_link", "send_message"}
             => ~InStore(file, Current(p).message_id)

\* Witness of C1: a run has recorded one candidate and failed to send another.
C1_Witness ==
    \E p \in Procs : \E j, k \in Candidates(p) :
        outcome[p][j] = "recorded" /\ outcome[p][k] = "failed"
        /\ InStore(file, updates[p][j].message_id)

\* ---------------------------------------------------------------------- C2
\* C2: when the send of a candidate failed in a run, its id is not in the
\* store when that run ends, and a following run (one that ends, is given
\* the same batch and gets as far as the for loop) does not skip the
\* candidate: it attempts the send again.
Attempted == {"failed", "published", "recorded"}
C2_RetriedAfterFailedSend ==
    \A p \in Procs :
        pc[p] = "done" =>
            /\ \A i \in failed_ids(p) : ~InStore(file, i)
            /\ (end[p] \in {"complete", "error"} /\ prev.failed # {}
                /\ updates[p] = prev.updates)
                  => \A j \in Candidates(p) :
                        updates[p][j].message_id \in prev.failed
                           => outcome[p][j] \in Attempted

\* ---------------------------------------------------------------------- C3
\* C3 as stated: over sequential runs that are not killed, an id whose send
\* was confirmed once is never sent again, so no id is published twice.
C3_PublishedOnce ==
    \A i \in MessageIds : i \notin lostCrash => pubs[i] <= 1

\* C3, amended: a candidate whose id was in the store when the run started is
\* skipped as a duplicate and not sent; and when no send of the id was ever
\* left unrecorded (by a kill or by a failed write), it was published
\* exactly once.
C3_RecordedIsSkipped ==
    \A p \in Procs : \A j \in Candidates(p) :
        LET i == updates[p][j].message_id IN
        InStore(file0[p], i) =>
            /\ outcome[p][j] \in {"unseen", "duplicate"}
            /\ \A s \in sent[p] : s.pos # j
            /\ idx[p] > j => outcome[p][j] = "duplicate"
            /\ i \notin (lostCrash \cup lostWrite) => pubs[i] = 1

\* Witness of C3: a run has skipped a message published in an earlier run.
C3_Witness ==
    \E p \in Procs : \E j \in Candidates(p) :
        /\ outcome[p][j] = "duplicate"
        /\ pubs[updates[p][j].message_id] = 1
        /\ pc[p] = "done"

\* ---------------------------------------------------------------------- C4
\* Every candidate of the batch of p had its id in the store when the run
\* started.
AllRecorded(p) ==
    /\ updates[p] # <<>>
    /\ Candidates(p) # {}
    /\ \A j \in Candidates(p) : InStore(file0[p], updates[p][j].message_id)

\* C4: a run on a batch whose candidates are all in the store sends nothing,
\* asks the affiliate endpoint nothing and leaves the file as it was.
C4_NoEffectWhenAllRecorded ==
    \A p \in Procs :
        AllRecorded(p) => sent[p] = {} /\ http[p] = {} /\ file = file0[p]

\* Witness of C4: such a run, over two recorded candidates, has ended.
C4_Witness ==
    \E p \in Procs :
        /\ AllRecorded(p)
        /\ pc[p] = "done" /\ end[p] = "complete"
        /\ Cardinality(Candidates(p)) = 2
        /\ requested(cfg[p].endpoint)

\* ---------------------------------------------------------------------- C5
\* C5: whatever happens to one candidate, the later updates of the batch are
\* still handled in the same run: when main returns after it got a batch,
\* no update of the batch is left unseen.
C5_LaterCandidatesProcessed ==
    \A p \in Procs :
        (pc[p] = "done" /\ end[p] \in {"complete", "error"})
            => \A j \in 1..Len(updates[p]) : outcome[p][j] # "unseen"

\* ---------------------------------------------------------------------- C6
\* The request failed: no response came, or one with a status that is no
\* success.
FailedRequest(resp) ==
    \/ resp.kind \in {"Timeout", "ConnectionError"}
    \/ resp.kind = "http" /\ (resp.status < 200 \/ resp.status > 299)

\* The link the message of update u carries (empty when it carries none).
OriginalLinks ==
    [u \in Updates |->
        IF message_regex_search(u.text).ok
        THEN extract(u.text, message_regex_search(u.text)).link ELSE <<>>]
OriginalLink(u) == OriginalLinks[u]

\* Is s the end of t?
EndsWith(t, s) == Len(s) <= Len(t) /\ SubSeq(t, Len(t) - Len(s) + 1, Len(t)) = s

\* The last line of the text is the link line, and it points to link.
HasLinkLine(text, link) ==
    EndsWith(text, <<Newline, LinkEmoji, " ", "*", "*", "Affiliate", " ", "Link:", "*", "*",
                     " ", "[", "Buy", " ", "Now", "]", "(">> \o link \o <<")">>)

GoodBody(resp) == resp.json = "object" /\ resp.has /\ resp.isstr

\* C7: on a success status the resolver returns the value of the field when
\* the body is an object with that string field, and for every other body
\* it returns the original link; it never raises.
C7_OtherShapesFallBack ==
    \A p \in Procs :
        (response[p].kind = "http" /\ ~FailedRequest(response[p])) =>
            /\ outcome[p][idx[p]] # "raised"
            /\ affiliate_link[p] =
                  IF GoodBody(response[p]) THEN response[p].value
                  ELSE OriginalLink(Current(p))

\* ---------------------------------------------------------------------- C8
\* C8: in a run without an endpoint no request is made and no call of
\* get_affiliate_link raises; it returned the link it was given, and every
\* message that is sent ends with the link line of the original link.
C8_NoEndpointKeepsLink ==
    \A p \in Procs :
        (pc[p] # "idle" /\ not(cfg[p].endpoint)) =>
            /\ http[p] = {}
            /\ \A j \in 1..Len(outcome[p]) : outcome[p][j] # "raised"
            /\ pc[p] \in {"send_message", "save_processed_id"}
                  => affiliate_link[p] = OriginalLink(Current(p))
            /\ \A s \in sent[p] : HasLinkLine(s.text, OriginalLink(updates[p][s.pos]))

\* Witness of C8: a run without an endpoint has a confirmed send.
C8_Witness ==
    \E p \in Procs :
        /\ not(cfg[p].endpoint)
        /\ \E s \in sent[p] : s.ok /\ HasLinkLine(s.text, OriginalLink(updates[p][s.pos]))

\* ---------------------------------------------------------------------- C9
\* C9 as stated: over sequential runs a message is published more than once
\* only when a process was killed between the confirmed send and the write.
C9_TwiceOnlyAfterKill ==
    \A i \in MessageIds : pubs[i] > 1 => i \in lostCrash

\* C9, amended: over sequential runs a message is published more than once
\* only when a confirmed send was left unrecorded, by a kill or by a failed
\* write; and after a first send that a kill left unrecorded the id is not
\* in the store, so that the next run does not skip the message.
C9_TwiceOnlyAfterLostRecord ==
    \A i \in MessageIds :
        /\ pubs[i] > 1 => i \in (lostCrash \cup lostWrite)
        /\ (i \in lostCrash /\ pubs[i] = 1) => ~InStore(file, i)
        /\ \A p \in Procs :
              (i \in lostCrash /\ pubs[i] = 1 /\ pc[p] # "idle") =>
                 \A j \in Candidates(p) :
                    updates[p][j].message_id = i => outcome[p][j] # "duplicate"

\* Witness of C9: after a kill between send and write, the next run has
\* published the message again.
C9_Witness ==
    \E i \in MessageIds :
        /\ pubs[i] = 2 /\ i \in lostCrash /\ i \notin lostWrite
        /\ \E p \in Procs : pc[p] = "save_processed_id" /\ Current(p).message_id = i

\* --------------------------------------------------------------------- C10
\* C10: when runs overlap, nothing keeps two of them from sending the same
\* unrecorded message and appending its id twice (the witness); an id is in
\* the file as often as two runs both had a confirmed send of it, never
\* more often than it was published.
C10_AppendedAsOftenAsPublished ==
    \A i \in MessageIds :
        Count(file, i) + Cardinality({p \in Procs : pc[p] = "save_processed_id"
                                                    /\ Current(p).message_id = i})
           <= pubs[i]

\* Witness of C10: both runs passed the check before either wrote, both had
\* their send confirmed, and the id is in the file twice, with no kill and no
\* failed write.
C10_Witness ==
    \E i \in MessageIds :
        /\ Count(file, i) = 2 /\ pubs[i] = 2
        /\ lostCrash = {} /\ lostWrite = {}
        /\ runs = 2

\* --------------------------------------------------------------------- C11
\* Is f the beginning of g?
IsPrefix(f, g) == Len(f) <= Len(g) /\ SubSeq(g, 1, Len(f)) = f

\* C11: the store only grows.  Every step leaves the file as it is or appends
\* to it one id and a newline; what was in the file stays where it was, and
\* every id in the store before the step is in the store after it.
C11_StoreOnlyGrows ==
    [][ /\ IsPrefix(file, file')
        /\ file' # file => \E i \in MessageIds : file' = file \o str(i) \o <<Newline>>
        /\ \A i \in MessageIds : InStore(file, i) => InStore(file', i)
        /\ \A i \in MessageIds : Count(file', i) >= Count(file, i) ]_vars

\* Witness of C11: a run recorded one id and was ended by a failed write of
\* another; the next run has added that id to the store, behind the first.
C11_Witness ==
    \E p \in Procs :
        /\ file0[p] # <<>> /\ file # file0[p] /\ IsPrefix(file0[p], file)
        /\ pc[p] = "done" /\ lostWrite # {}
        /\ \E i, j \in MessageIds : i # j /\ InStore(file, i) /\ InStore(file, j)

\* --------------------------------------------------------------------- C12
\* A mandatory value is missing or empty (read off the configuration,
\* without all_mandatory).
MissingMandatory(c) == c.token = <<>> \/ c.source = <<>> \/ c.target = <<>>

\* C12: a run that misses the token, the source chat or the target chat does
\* nothing but return: it never gets to get_updates, it has no batch, it asks
\* the affiliate endpoint nothing, sends nothing and leaves the file as it
\* was.  Only such a run ends that way: a run that has the three values, with
\* or without the endpoint, goes on to get_updates.
C12_MissingConfigAborts ==
    \A p \in Procs :
        pc[p] # "idle" =>
            /\ MissingMandatory(cfg[p]) =>
                  /\ pc[p] \in {"main", "done"}
                  /\ pc[p] = "done" => end[p] = "no_config"
                  /\ updates[p] = <<>> /\ outcome[p] = <<>>
                  /\ http[p] = {} /\ sent[p] = {}
                  /\ file = file0[p]
            /\ ~MissingMandatory(cfg[p]) =>
                  /\ end[p] # "no_config"
                  /\ pc[p] = "done" => end[p] \in {"fetch_error", "error", "complete"}

\* Witness of C12: a run that misses only the target chat has returned, with
\* the ids of an earlier run in the file.
C12_Witness ==
    \E p \in Procs :
        /\ pc[p] = "done" /\ end[p] = "no_config"
        /\ ~not(cfg[p].token) /\ ~not(cfg[p].source) /\ not(cfg[p].target)
        /\ ~not(cfg[p].endpoint)
        /\ file # <<>>

\* --------------------------------------------------------------------- C13
\* C13: a run whose get_updates raised has returned without a batch; it has
\* asked the affiliate endpoint nothing, sent nothing and written nothing:
\* the file, and with it every id recorded before, is as the run found it.
C13_FetchErrorAborts ==
    \A p \in Procs :
        end[p] = "fetch_error" =>
            /\ pc[p] = "done"
            /\ updates[p] = <<>> /\ http[p] = {} /\ sent[p] = {}
            /\ file = file0[p]
            /\ \A i \in MessageIds : pubs[i] > 0 /\ i \notin (lostCrash \cup lostWrite)
                                        => InStore(file, i)

\* Witness of C13: the fetch failed in a run that found an id in the store.
C13_Witness ==
    \E p \in Procs :
        /\ end[p] = "fetch_error"
        /\ \E i \in MessageIds : InStore(file, i) /\ pubs[i] = 1

\* --------------------------------------------------------------------- C14
\* The fields the parser extracts from the message of update u.
ParsedDeals ==
    [u \in Updates |->
        IF message_regex_search(u.text).ok
        THEN extract(u.text, message_regex_search(u.text)) ELSE NoDeal]

\* Is s a part of t?
Contains(t, s) ==
    \E k \in 0..(Len(t) - Len(s)) : SubSeq(t, k + 1, k + Len(s)) = s

\* The sends of the run of p for position j of its batch.
SentFor(p, j) == {s \in sent[p] : s.pos = j}

\* What C14 says of the one message sent for a candidate whose send was
\* confirmed: it went to the target chat, and its text holds the parsed
\* name, both prices as they were written, and the link the resolver gave.
SentAsParsed(p, j) ==
    LET d == ParsedDeals[updates[p][j]] IN
    /\ Cardinality(SentFor(p, j)) = 1
    /\ \A s \in SentFor(p, j) :
          /\ s.ok /\ s.chat_id = str(TargetChat) /\ s.parse_mode = "Markdown"
          /\ d.product_name # <<>> /\ Contains(s.text, d.product_name)
          /\ Contains(s.text, <<Rupee>> \o d.before_price \o <<" ", Arrow, " ", Rupee>>
                                 \o d.after_price \o <<Newline>>)
          /\ (idx[p] = j /\ pc[p] = "save_processed_id")
                => HasLinkLine(s.text, affiliate_link[p])

\* C14 as stated: for a candidate whose send was confirmed, one message was
\* sent, as parsed, and its id is in the store when the run takes the next
\* candidate and when it ends.
C14_PublishedThenRecorded ==
    \A p \in Procs : \A j \in Candidates(p) :
        outcome[p][j] \in {"published", "recorded"} =>
            /\ SentAsParsed(p, j)
            /\ (idx[p] > j \/ pc[p] = "done") => InStore(file, updates[p][j].message_id)

\* C14, amended: the same, when the write of the id does not fail.  A
\* candidate is past its confirmed send without its id in the store only
\* when the write failed, and then the run has ended with that candidate.
C14_PublishedThenRecordedUnlessWriteFails ==
    \A p \in Procs : \A j \in Candidates(p) :
        outcome[p][j] \in {"published", "recorded"} =>
            /\ SentAsParsed(p, j)
            /\ outcome[p][j] = "recorded" =>
                  /\ idx[p] > j
                  /\ InStore(file, updates[p][j].message_id)
            /\ outcome[p][j] = "published" =>
                  /\ idx[p] = j
                  /\ pc[p] \in {"save_processed_id", "done"}
                  /\ pc[p] = "done" =>
                        /\ end[p] = "error"
                        /\ updates[p][j].message_id \in lostWrite

\* Witness of C14: a run has ended after it sent and recorded two candidates.
C14_Witness ==
    \E p \in Procs :
        /\ pc[p] = "done" /\ end[p] = "complete"
        /\ Cardinality(sent[p]) = 2
        /\ \A j \in 1..Len(updates[p]) :
              outcome[p][j] = "recorded" /\ InStore(file, updates[p][j].message_id)

\* --------------------------------------------------------------------- C15
\* The markers as the contract of the parser describes them, read off the
\* text without message_regex.  Each gives the position behind the marker
\* when it stands at position i of t, and 0 otherwise.
RECURSIVE Run(_, _, _)
Run(t, pos, S) == IF pos <= Len(t) /\ t[pos] \in S THEN 1 + Run(t, pos + 1, S) ELSE 0
SkipSpace(t, pos) == pos + Run(t, pos, Whitespace)
IsAt(t, pos, S) == pos <= Len(t) /\ t[pos] \in S
AmountEnd(t, pos) ==
    IF IsAt(t, pos, {Rupee}) /\ Run(t, pos + 1, DigitSet \cup {","}) > 0
    THEN pos + 1 + Run(t, pos + 1, DigitSet \cup {","}) ELSE 0

\* The product-name marker: the box and the word Product:.
ProductMarkerEnd(t, i) ==
    IF IsAt(t, i, {BoxEmoji}) /\ IsAt(t, SkipSpace(t, i + 1), ProductWords)
    THEN SkipSpace(t, i + 1) + 1 ELSE 0

\* The price marker (the bag and the word Price:) with two amounts and the
\* arrow between them.
PriceMarkerEnd(t, i) ==
    IF IsAt(t, i, {BagEmoji}) /\ IsAt(t, SkipSpace(t, i + 1), PriceWords)
    THEN LET a == AmountEnd(t, SkipSpace(t, SkipSpace(t, i + 1) + 1)) IN
         IF a > 0 /\ IsAt(t, SkipSpace(t, a), {Arrow})
         THEN AmountEnd(t, SkipSpace(t, SkipSpace(t, a) + 1)) ELSE 0
    ELSE 0

\* The link marker with an http or https URL.
LinkMarkerEnd(t, i) ==
    IF IsAt(t, i, LinkWords) /\ IsAt(t, SkipSpace(t, i + 1), SchemeWords)
       /\ Run(t, SkipSpace(t, i + 1) + 1, {x \in {t[k] : k \in 1..Len(t)} : x \notin Whitespace}) > 0
    THEN SkipSpace(t, i + 1) + 2 ELSE 0

\* The three markers stand in the text in the order product, price, link.
MarkersInOrder(t) ==
    \E i \in 1..Len(t) :
        /\ ProductMarkerEnd(t, i) > 0
        /\ \E j \in ProductMarkerEnd(t, i)..Len(t) :
              /\ PriceMarkerEnd(t, j) > 0
              /\ \E k \in PriceMarkerEnd(t, j)..Len(t) : LinkMarkerEnd(t, k) > 0

\* The same, with a name behind the product marker that ends at a line
\* boundary before a detail marker or the price marker.
DealInOrder(t) ==
    \E i \in 1..Len(t) :
        /\ ProductMarkerEnd(t, i) > 0
        /\ \E n \in (ProductMarkerEnd(t, i) + 1)..Len(t) :
              /\ \E m \in ProductMarkerEnd(t, i)..(n - 1) : t[m] \notin Whitespace
              /\ t[n] = Newline /\ IsAt(t, n + 1, {BulbEmoji, BagEmoji})
              /\ \E j \in (n + 1)..Len(t) :
                    /\ PriceMarkerEnd(t, j) > 0
                    /\ \E k \in PriceMarkerEnd(t, j)..Len(t) : LinkMarkerEnd(t, k) > 0

\* The text process p has parsed: the only update of its batch.
ParsedText(p) == updates[p][1].text
HasParsed(p) == Len(updates[p]) = 1 /\ pc[p] \in {"for", "get_affiliate_link"}

\* C15: the parser returns a deal for every text that has the three markers
\* in order (the name ending at a line boundary before a detail or price
\* marker), with fields that are trimmed parts of the text, and it returns
\* NoMatch for every text that misses a marker or has the markers out of
\* order.
C15_ParsesMarkersInOrder ==
    \A p \in Procs :
        HasParsed(p) =>
            /\ DealInOrder(ParsedText(p)) =>
                  /\ pc[p] = "get_affiliate_link"
                  /\ \A g \in GroupNames :
                        /\ deal[p][g] # <<>> /\ strip(deal[p][g]) = deal[p][g]
                        /\ Contains(ParsedText(p), deal[p][g])
            /\ ~MarkersInOrder(ParsedText(p)) =>
                  pc[p] = "for" /\ outcome[p][1] = "no_match"

\* --------------------------------------------------------------------- C16
\* The characters with a meaning in Markdown, and the number of them in a
\* text that no backslash escapes.
MarkdownSpecial == {"*", "_", "[", "]", "(", ")"}
Unescaped(t) ==
    Cardinality({k \in 1..Len(t) : t[k] \in MarkdownSpecial /\ (k = 1 \/ t[k - 1] # "\\")})

\* C16: every text handed to send_message has no unescaped Markdown
\* character but those of the template itself: the name, the prices and the
\* link that were put into it contribute none.
C16_ValuesEscaped ==
    \A p \in Procs : \A s \in sent[p] :
        s.parse_mode = "Markdown"
        /\ Unescaped(s.text) = Unescaped(final_message(<<>>, <<>>, <<>>, <<>>))

\* --------------------------------------------------------------------- C17
\* The outcomes that are one of the terminal states: Skipped (no text, a
\* known id, no match), Failed and Recorded.
Skipped == {"no_text", "duplicate", "no_match"}
Terminal == Skipped \cup {"failed", "recorded"}

\* C17: when main has returned, every candidate the run handled is in one of
\* the terminal states; a skipped candidate caused no request and no send,
\* a failed or recorded one at most one request and exactly one send
\* attempt, and no candidate more than one.
C17_EndsInTerminalState ==
    \A p \in Procs : \A j \in Candidates(p) :
        /\ outcome[p][j] \in Skipped => j \notin http[p] /\ SentFor(p, j) = {}
        /\ Cardinality(SentFor(p, j)) <= 1
        /\ outcome[p][j] \in {"failed", "recorded"} => Cardinality(SentFor(p, j)) = 1
        /\ (pc[p] = "done" /\ outcome[p][j] # "unseen") => outcome[p][j] \in Terminal

\* --------------------------------------------------------------------- C18
\* C18: in sequential runs that do not abort, a deal post of the source chat
\* that is in the batch of every run until its id is in the store, and whose
\* send does not fail for ever, is in the end published once and recorded,
\* and from then on every run that is given it skips it as a duplicate and
\* sends nothing for it.
C18_EventuallyRecordedThenSkipped ==
    <>[](/\ pubs[mode.track] = 1
         /\ InStore(file, mode.track)
         /\ \A p \in Procs : \A j \in Candidates(p) :
               updates[p][j].message_id = mode.track =>
                  /\ outcome[p][j] \in {"unseen", "duplicate"}
                  /\ idx[p] > j => outcome[p][j] = "duplicate"
                  /\ SentFor(p, j) = {})

\* Witness of C18: the tracked message was not recorded by the first run
\* that was given it (its send failed), and a later run has published and
\* recorded it.
C18_Witness ==
    \E p \in Procs : \E j \in Candidates(p) :
        /\ mode.track # 0 /\ updates[p][j].message_id = mode.track
        /\ runs > 1 /\ ~InStore(file0[p], mode.track)
        /\ outcome[p][j] = "recorded" /\ InStore(file, mode.track)
        /\ pubs[mode.track] = 1

\* --------------------------------------------------------------------- C19
\* Is the update one that carries a message of the chat SOURCE_CHAT_ID names?
\* (Read off the update, without from_source.)
OfSourceChat(u) == u.has /\ u.chat_id = SourceChat

\* The positions of the batch of p that hold no message of the source chat.
Foreign(p) == {j \in 1..Len(updates[p]) : ~OfSourceChat(updates[p][j])}

\* C19: an update without a message, or with a message of another chat, is
\* passed over: process_message is never at it, no request and no send is
\* made for it, and a run whose batch holds only such updates leaves the
\* file as it was, whatever their texts and ids.
C19_OnlySourceChatProcessed ==
    \A p \in Procs :
        /\ \A j \in Foreign(p) :
              /\ outcome[p][j] \in {"unseen", "filtered"}
              /\ idx[p] > j => outcome[p][j] = "filtered"
              /\ idx[p] = j => pc[p] = "for"
              /\ j \notin http[p]
              /\ SentFor(p, j) = {}
        /\ (updates[p] # <<>> /\ Foreign(p) = 1..Len(updates[p]))
              => http[p] = {} /\ sent[p] = {} /\ file = file0[p]

\* Witness of C19: a run has ended that was given a deal post of another chat
\* and an update without a message, with the id of the post not in the store.
C19_Witness ==
    \E p \in Procs :
        /\ pc[p] = "done" /\ end[p] = "complete"
        /\ Len(updates[p]) = 2 /\ Foreign(p) = {1, 2}
        /\ \E j, k \in Foreign(p) :
              /\ updates[p][j].has /\ message_regex_search(updates[p][j].text).ok
              /\ ~InStore(file, updates[p][j].message_id)
              /\ ~updates[p][k].has
        /\ \A j \in Foreign(p) : outcome[p][j] = "filtered"

\* --------------------------------------------------------------------- C20
\* The positions of the batch of p that hold the source message with id i.
Occurrences(p, i) == {j \in Candidates(p) : updates[p][j].message_id = i}

\* C20: when a batch holds the same message of the source chat more than
\* once and an occurrence was published and recorded, every later occurrence
\* is skipped as a duplicate, with no request and no send; the run has at
\* most one confirmed send of the id and appends it at most once.
C20_DedupWithinRun ==
    \A p \in Procs : \A i \in MessageIds :
        /\ \A j, k \in Occurrences(p, i) :
              (j < k /\ outcome[p][j] = "recorded") =>
                  /\ outcome[p][k] \in {"unseen", "duplicate"}
                  /\ idx[p] > k => outcome[p][k] = "duplicate"
                  /\ k \notin http[p] /\ SentFor(p, k) = {}
        /\ Cardinality({s \in sent[p] : s.ok /\ s.pos \in Occurrences(p, i)}) <= 1
        /\ pc[p] # "idle" => Count(file, i) <= Count(file0[p], i) + 1

\* Witness of C20: a run was given the same deal post twice; it has published
\* and recorded the first and skipped the second.
C20_Witness ==
    \E p \in Procs : \E i \in MessageIds :
        /\ Occurrences(p, i) = {1, 2}
        /\ outcome[p] = <<"recorded", "duplicate">>
        /\ pc[p] = "done" /\ end[p] = "complete"
        /\ Count(file, i) = 1 /\ pubs[i] = 1

====
